---------------------------- MODULE Spec2Model ----------------------------
(***************************************************************************)
(* Model of sync_activities_to_sheets.py: the pairing of Garmin JSON      *)
(* files, merge_data / build_row, and main()'s deduplicating, chunked     *)
(* upload to the worksheet.                                               *)
(*                                                                         *)
(* Values.  A JSON / Python value is a record [t, n]:                     *)
(*   t = "None"  : None / JSON null                                       *)
(*   t = "int"   : the integer n                                          *)
(*   t = "num"   : the float n / 1000 (fixed point, thousandths)          *)
(*   t = "str"   : a string of n characters ("" is n = 0)                 *)
(*   t = "time"  : an ISO-8601 date-time string, n seconds on a time line *)
(*   t = "list"  : a list or dict whose JSON text has n characters        *)
(*   t = "absent": no value: the key is not in the document               *)
(***************************************************************************)
EXTENDS Integers, Sequences, FiniteSets, TLC

None       == [t |-> "None", n |-> 0]
Absent     == [t |-> "absent", n |-> 0]
EmptyStr   == [t |-> "str", n |-> 0]
Int_(k)    == [t |-> "int", n |-> k]
Num(k)     == [t |-> "num", n |-> k]
Str(k)     == [t |-> "str", n |-> k]
Time(k)    == [t |-> "time", n |-> k]
List(k)    == [t |-> "list", n |-> k]

\* Python truth value of a value.
Truthy(v) ==
    CASE v.t = "None"            -> FALSE
      [] v.t \in {"int", "num"}  -> v.n # 0
      [] v.t = "list"            -> v.n > 2
      [] OTHER                   -> v.n > 0

IsNumber(v) == v.t \in {"int", "num"}

\* A number in thousandths.
Milli(v) == IF v.t = "int" THEN v.n * 1000 ELSE v.n

\* round() of the quotient a / b of two positive integers (ties to even).
RoundDiv(a, b) ==
    LET q == a \div b
        r == a % b
    IN  IF 2 * r > b THEN q + 1
        ELSE IF 2 * r < b THEN q
        ELSE IF q % 2 = 0 THEN q ELSE q + 1

CHUNK_SIZE == 100
MAX_CELL_LENGTH == 50000

HEADERS ==
    << "activityId", "activityName", "activityTypeId", "parentActivityTypeId",
       "eventTypeId", "manualActivity", "favorite", "personalRecord",
       "startTimeLocal", "startTimeGMT", "activityTimestampMs", "duration",
       "movingDuration", "elapsedDuration", "timezoneOffset",
       "distance", "averageSpeed", "maxSpeed", "averageStrideLength",
       "averagePaceMinPerKm", "totalElevationGain", "totalElevationLoss",
       "minElevation", "maxElevation", "startLatitude", "startLongitude",
       "endLatitude", "endLongitude", "averageHeartRate", "maxHeartRate",
       "averageCadence", "maxCadence", "totalSteps", "vo2MaxValue",
       "activeKilocalories", "bmrKilocalories", "bodyBatteryDelta",
       "hrZone1Seconds", "hrZone2Seconds", "hrZone3Seconds", "hrZone4Seconds",
       "hrZone5Seconds", "moderateIntensityMinutes", "vigorousIntensityMinutes",
       "hydrationConsumedMl", "splitsJSON" >>

(***************************************************************************)
(* Derived fields.  Each returns [err, val]: err is TRUE when the Python  *)
(* expression raises (TypeError on a non-number operand).                 *)
(***************************************************************************)
Raises == [err |-> TRUE, val |-> None]
Returns(v) == [err |-> FALSE, val |-> v]

\* round(distance_m / total_steps, 3) if total_steps else ""
compute_stride_length(distance_m, total_steps) ==
    IF ~Truthy(total_steps) THEN Returns(EmptyStr)
    ELSE IF ~IsNumber(distance_m) \/ ~IsNumber(total_steps) THEN Raises
    ELSE Returns(Num(RoundDiv(1000 * Milli(distance_m), Milli(total_steps))))

\* pace_sec = 1000 / avg_speed ; round(pace_sec / 60, 2) ; "" when falsy
compute_pace_min_per_km(avg_speed_m_s) ==
    IF ~Truthy(avg_speed_m_s) THEN Returns(EmptyStr)
    ELSE IF ~IsNumber(avg_speed_m_s) THEN Raises
    ELSE Returns(Num(10 * RoundDiv(100 * 1000 * 1000, 60 * Milli(avg_speed_m_s))))

(***************************************************************************)
(* merge_data.  A document is a function from key paths to values; a path *)
(* such as "summaryDTO.distance" stands for details["summaryDTO"]         *)
(* ["distance"], and a path outside the DOMAIN is a missing key at some   *)
(* level.  FieldSource lists the entries of the returned dict in order:   *)
(*   from = "details" : details[...] (KeyError when the path is missing)  *)
(*   from = "flat"    : flat.get(key) (None when missing)                 *)
(*   from = "tz"      : tz_offset_h                                       *)
(*   from = "splits"  : details.get("splitSummaries", [])                 *)
(***************************************************************************)
FieldSource ==
    <<
       [col |-> "activityId", from |-> "details", key |-> "activityId"],
       [col |-> "activityName", from |-> "details", key |-> "activityName"],
       [col |-> "activityTypeId", from |-> "details", key |-> "activityTypeDTO.typeId"],
       [col |-> "parentActivityTypeId", from |-> "details", key |-> "activityTypeDTO.parentTypeId"],
       [col |-> "eventTypeId", from |-> "details", key |-> "eventTypeDTO.typeId"],
       [col |-> "manualActivity", from |-> "details", key |-> "metadataDTO.manualActivity"],
       [col |-> "favorite", from |-> "details", key |-> "metadataDTO.favorite"],
       [col |-> "personalRecord", from |-> "details", key |-> "metadataDTO.personalRecord"],
       [col |-> "startTimeLocal", from |-> "details", key |-> "summaryDTO.startTimeLocal"],
       [col |-> "startTimeGMT", from |-> "details", key |-> "summaryDTO.startTimeGMT"],
       [col |-> "activityTimestampMs", from |-> "flat", key |-> "beginTimestamp"],
       [col |-> "timezoneOffset", from |-> "tz", key |-> ""],
       [col |-> "duration", from |-> "details", key |-> "summaryDTO.duration"],
       [col |-> "movingDuration", from |-> "details", key |-> "summaryDTO.movingDuration"],
       [col |-> "elapsedDuration", from |-> "details", key |-> "summaryDTO.elapsedDuration"],
       [col |-> "distance", from |-> "details", key |-> "summaryDTO.distance"],
       [col |-> "averageSpeed", from |-> "details", key |-> "summaryDTO.averageSpeed"],
       [col |-> "maxSpeed", from |-> "details", key |-> "summaryDTO.maxSpeed"],
       [col |-> "totalSteps", from |-> "details", key |-> "summaryDTO.steps"],
       [col |-> "totalElevationGain", from |-> "details", key |-> "summaryDTO.elevationGain"],
       [col |-> "totalElevationLoss", from |-> "details", key |-> "summaryDTO.elevationLoss"],
       [col |-> "minElevation", from |-> "details", key |-> "summaryDTO.minElevation"],
       [col |-> "maxElevation", from |-> "details", key |-> "summaryDTO.maxElevation"],
       [col |-> "startLatitude", from |-> "details", key |-> "summaryDTO.startLatitude"],
       [col |-> "startLongitude", from |-> "details", key |-> "summaryDTO.startLongitude"],
       [col |-> "endLatitude", from |-> "details", key |-> "summaryDTO.endLatitude"],
       [col |-> "endLongitude", from |-> "details", key |-> "summaryDTO.endLongitude"],
       [col |-> "averageHeartRate", from |-> "details", key |-> "summaryDTO.averageHR"],
       [col |-> "maxHeartRate", from |-> "details", key |-> "summaryDTO.maxHR"],
       [col |-> "averageCadence", from |-> "details", key |-> "summaryDTO.averageRunCadence"],
       [col |-> "maxCadence", from |-> "details", key |-> "summaryDTO.maxRunCadence"],
       [col |-> "vo2MaxValue", from |-> "flat", key |-> "vO2MaxValue"],
       [col |-> "activeKilocalories", from |-> "details", key |-> "summaryDTO.calories"],
       [col |-> "bmrKilocalories", from |-> "details", key |-> "summaryDTO.bmrCalories"],
       [col |-> "bodyBatteryDelta", from |-> "details", key |-> "summaryDTO.differenceBodyBattery"],
       [col |-> "hrZone1Seconds", from |-> "flat", key |-> "hrTimeInZone_1"],
       [col |-> "hrZone2Seconds", from |-> "flat", key |-> "hrTimeInZone_2"],
       [col |-> "hrZone3Seconds", from |-> "flat", key |-> "hrTimeInZone_3"],
       [col |-> "hrZone4Seconds", from |-> "flat", key |-> "hrTimeInZone_4"],
       [col |-> "hrZone5Seconds", from |-> "flat", key |-> "hrTimeInZone_5"],
       [col |-> "moderateIntensityMinutes", from |-> "details", key |-> "summaryDTO.moderateIntensityMinutes"],
       [col |-> "vigorousIntensityMinutes", from |-> "details", key |-> "summaryDTO.vigorousIntensityMinutes"],
       [col |-> "hydrationConsumedMl", from |-> "details", key |-> "summaryDTO.waterEstimated"],
       [col |-> "splitsJSON", from |-> "splits", key |-> "splitSummaries"]
    >>

MergedCols == { FieldSource[i].col : i \in 1..Len(FieldSource) }

\* The paths merge_data reads with details[...]: each must be present.
RequiredPaths ==
    { FieldSource[i].key : i \in { j \in 1..Len(FieldSource) : FieldSource[j].from = "details" } }

FlatKeys ==
    { FieldSource[i].key : i \in { j \in 1..Len(FieldSource) : FieldSource[j].from = "flat" } }

\* dict.get(key, default)
Get(doc, key, default) == IF key \in DOMAIN doc THEN doc[key] ELSE default

SourceOf(col) == FieldSource[CHOOSE i \in 1..Len(FieldSource) : FieldSource[i].col = col]

\* merge_data raises: a KeyError on a missing path, or fromisoformat() on a
\* start time that is no ISO date-time string.
MergeRaises(details, flat) ==
    \/ \E p \in RequiredPaths : p \notin DOMAIN details
    \/ details["summaryDTO.startTimeLocal"].t # "time"
    \/ details["summaryDTO.startTimeGMT"].t # "time"

\* (fromisoformat(start_local) - fromisoformat(start_gmt)).total_seconds() / 3600
TzOffsetHours(start_local, start_gmt) ==
    Num(((start_local.n - start_gmt.n) * 1000) \div 3600)

\* The dict merge_data returns (when it does not raise).
merge_data(details, flat) ==
    [col \in MergedCols |->
        LET e == SourceOf(col)
        IN  CASE e.from = "details" -> details[e.key]
              [] e.from = "flat"    -> Get(flat, e.key, None)
              [] e.from = "tz"      -> TzOffsetHours(details["summaryDTO.startTimeLocal"],
                                                     details["summaryDTO.startTimeGMT"])
              [] e.from = "splits"  -> Get(details, e.key, List(2))]

(***************************************************************************)
(* build_row                                                               *)
(***************************************************************************)
Stride(data) ==
    compute_stride_length(Get(data, "distance", Int_(0)), Get(data, "totalSteps", Int_(0)))

Pace(data) == compute_pace_min_per_km(Get(data, "averageSpeed", Int_(0)))

\* build_row raises when one of the two derived computations raises.
BuildRaises(data) == Stride(data).err \/ Pace(data).err

\* enriched = {**data, "averageStrideLength": stride, "averagePaceMinPerKm": pace}
Enriched(data) ==
    [col \in DOMAIN data \cup {"averageStrideLength", "averagePaceMinPerKm"} |->
        CASE col = "averageStrideLength" -> Stride(data).val
          [] col = "averagePaceMinPerKm" -> Pace(data).val
          [] OTHER                       -> data[col]]

Min(a, b) == IF a < b THEN a ELSE b

\* json.dumps(val, ensure_ascii=False)[:MAX_CELL_LENGTH] for a dict or list,
\* the value itself otherwise.
Cell(val) == IF val.t = "list" THEN Str(Min(val.n, MAX_CELL_LENGTH)) ELSE val

\* Variant: one cell per key of data, the derived columns left out.
build_row_data_columns(data) ==
    LET cols == SelectSeq(HEADERS, LAMBDA c : c \in DOMAIN data)
    IN  [i \in 1..Len(cols) |-> Cell(data[cols[i]])]

\* The row build_row returns (when it does not raise).
build_row(data) ==
    [i \in 1..Len(HEADERS) |-> Cell(Get(Enriched(data), HEADERS[i], EmptyStr))]

(***************************************************************************)
(* Files.  A file name <part>_..._<part>_<id>.json is [parts, id]; the    *)
(* activity identifiers are natural numbers.  The content of a file is    *)
(* what json.load makes of it: malformed text, or a document described by *)
(* the fields that vary (Absent: the key is not in the document).         *)
(***************************************************************************)
FlatName(id)    == [parts |-> <<"activity">>, id |-> id]
DetailsName(id) == [parts |-> <<"activity", "details">>, id |-> id]

\* glob "activity_*.json": the name starts with "activity_" and ends with ".json".
MatchesFlatPattern(name) ==
    Len(name.parts) >= 1 /\ name.parts[1] = "activity"

\* glob "activity_details_*.json"
MatchesDetailsPattern(name) ==
    Len(name.parts) >= 2 /\ name.parts[1] = "activity" /\ name.parts[2] = "details"

\* os.path.splitext(os.path.basename(p))[0].rsplit("_", 1)[1]
get_id(name) == name.id

\* A details document with every path merge_data reads, and splitSummaries.
BaseDetails ==
    [p \in RequiredPaths \cup {"splitSummaries"} |->
        CASE p = "activityId"                  -> Int_(0)
          [] p = "activityName"                -> Str(8)
          [] p = "summaryDTO.startTimeLocal"   -> Time(7200)
          [] p = "summaryDTO.startTimeGMT"     -> Time(0)
          [] p = "summaryDTO.distance"         -> Num(50000)
          [] p = "summaryDTO.steps"            -> Int_(10)
          [] p = "summaryDTO.averageSpeed"     -> Num(2500)
          [] p = "splitSummaries"              -> List(40)
          [] OTHER                             -> Num(1000)]

\* The keys of a details file that differ from BaseDetails (Absent: the key
\* is not in the file).
Overrides(c) ==
    [p \in {"activityId", "summaryDTO.steps", "summaryDTO.distance",
            "summaryDTO.averageSpeed", "splitSummaries"} |->
        CASE p = "activityId"               -> Int_(c.activityId)
          [] p = "summaryDTO.steps"         -> c.steps
          [] p = "summaryDTO.distance"      -> c.distance
          [] p = "summaryDTO.averageSpeed"  -> c.speed
          [] p = "splitSummaries"           -> c.splits]

\* json.load of a well-formed details file.
ParseDetails(c) ==
    [p \in { q \in DOMAIN BaseDetails :
                q \in DOMAIN Overrides(c) => Overrides(c)[q] # Absent } |->
        IF p \in DOMAIN Overrides(c) THEN Overrides(c)[p] ELSE BaseDetails[p]]

\* json.load of a well-formed flat file: the keys in c.flatkeys are present.
ParseFlat(c) == [k \in c.flatkeys |-> Num(1000)]

\* The content of an ordinary file of activity id.
Plain(id) ==
    [malformed |-> FALSE, activityId |-> id, steps |-> Int_(10),
     distance |-> Num(50000), speed |-> Num(2500), splits |-> List(40),
     flatkeys |-> FlatKeys]

(***************************************************************************)
(* State.                                                                  *)
(*   files, contents : the directory ACTIVITIES_DIR                       *)
(*   sheet           : column 1 of the worksheet, one cell per row        *)
(*                     (<< >>: no worksheet yet, or an empty one)         *)
(*   pc              : where main() is                                     *)
(*   known_ids, common_ids, idx, new_rows, added : main()'s locals; idx   *)
(*                     is the position of the for loop in common_ids      *)
(*   calls           : the row lists passed to ws.append_rows in this run *)
(*   built           : the rows build_row returned in this run, each with *)
(*                     the identifier it was built for                    *)
(*   max_buf         : the longest new_rows has been in this run          *)
(*   outcome         : how the run ended                                   *)
(*   run, prev_outcome : number of this run of main(); outcome of the run *)
(*                     before it                                           *)
(***************************************************************************)
VARIABLES files, contents, sheet, pc, known_ids, common_ids, idx, new_rows,
          added, calls, built, max_buf, outcome, run, prev_outcome

vars == << files, contents, sheet, pc, known_ids, common_ids, idx, new_rows,
           added, calls, built, max_buf, outcome, run, prev_outcome >>

MaxId == 2
MaxRuns == 2
BatchMax == 250

Ids == 1..MaxId

\* The cell of row 1, column 1 once HEADERS is written: the text "activityId".
HeaderCell == Str(10)

\* sorted(S), for a set S of identifiers (positive numbers)
SortedSeq(S) ==
    IF S = {} THEN << >>
    ELSE LET hi == CHOOSE x \in S : \A y \in S : y <= x
             In(i) == i \in S
         IN  SelectSeq([i \in 1..hi |-> i], In)

\* What is in the directory for one identifier.
EntryKinds ==
    {"none", "flat_only", "details_only", "bad_flat", "bad_details", "no_steps", "ok"}

FilesOf(kind) ==
    { FlatName(i) : i \in { j \in DOMAIN kind : kind[j] \notin {"none", "details_only"} } }
    \cup
    { DetailsName(i) : i \in { j \in DOMAIN kind : kind[j] \notin {"none", "flat_only"} } }

ContentsOf(kind, act) ==
    [f \in FilesOf(kind) |->
        IF f = FlatName(f.id)
        THEN [Plain(f.id) EXCEPT !.malformed = (kind[f.id] = "bad_flat")]
        ELSE [Plain(f.id) EXCEPT !.malformed = (kind[f.id] = "bad_details"),
                                 !.activityId = act[f.id],
                                 !.steps = IF kind[f.id] = "no_steps" THEN Absent
                                           ELSE Int_(10)]]

\* The locals of main() before it starts.
RunStart ==
    /\ pc = "start"
    /\ known_ids = {}
    /\ common_ids = << >>
    /\ idx = 1
    /\ new_rows = << >>
    /\ added = 0
    /\ calls = << >>
    /\ built = << >>
    /\ max_buf = 0
    /\ outcome = "running"

\* A worksheet the program left: nothing, or the header and distinct identifiers.
SheetOf(known) ==
    << HeaderCell >> \o [i \in 1..Cardinality(known) |-> Int_(SortedSeq(known)[i])]

\* Small directories, every combination of file kinds over Ids.  The
\* activityId inside a details file is the identifier of its name or another.
InitSmall ==
    /\ \E kind \in [Ids -> EntryKinds], act \in [Ids -> Ids] :
          /\ \A i \in Ids : act[i] = i \/ (kind[i] = "ok" /\ act[i] = (i % MaxId) + 1)
          /\ files = FilesOf(kind)
          /\ contents = ContentsOf(kind, act)
    /\ \/ sheet = << >>
       \/ \E known \in SUBSET Ids : sheet = SheetOf(known)

\* Large directories of well-formed pairs, to fill chunks of CHUNK_SIZE rows.
InitBatch ==
    /\ \E v \in { << CHUNK_SIZE, {}, {} >>, << CHUNK_SIZE + 3, {1}, {2} >>,
                  << BatchMax, {}, {} >> } :
          LET n     == v[1]
              bad   == v[2]
              known == v[3]
              kind  == [i \in 1..n |-> IF i \in bad THEN "bad_details" ELSE "ok"]
          IN  /\ files = FilesOf(kind)
              /\ contents = ContentsOf(kind, [i \in 1..n |-> i])
              /\ sheet = SheetOf(known)

\* One pair of files, every combination of the fields the derived columns
\* and the optional columns read.
StepsValues    == {Absent, None, Int_(0), Int_(10), Int_(3)}
DistanceValues == {None, Num(0), Num(50000)}
SpeedValues    == {Absent, None, Num(0), Num(2500)}
SplitsValues   == {Absent, List(2), List(40), List(MAX_CELL_LENGTH + 1)}
FlatKeySets    == {{}, FlatKeys, FlatKeys \ {"beginTimestamp"}, {"vO2MaxValue"}}

InitRow ==
    /\ files = {FlatName(1), DetailsName(1)}
    /\ \E st \in StepsValues, di \in DistanceValues, sp \in SpeedValues,
          spl \in SplitsValues, fk \in FlatKeySets :
          contents = [f \in files |->
                        [Plain(1) EXCEPT !.steps = st, !.distance = di, !.speed = sp,
                                         !.splits = spl, !.flatkeys = fk]]
    /\ sheet = << >>

Init ==
    /\ InitSmall \/ InitBatch \/ InitRow
    /\ RunStart
    /\ run = 1
    /\ prev_outcome = "none"

(***************************************************************************)
(* The worksheet                                                           *)
(***************************************************************************)
\* set(ws.col_values(1)[1:]): the texts of column 1 below row 1.  Only the
\* text of an integer cell can equal an identifier taken from a file name.
get_existing_ids(sh) ==
    { sh[i].n : i \in { j \in 2..Len(sh) : sh[j].t = "int" } }

\* ws.append_rows(rows): column 1 of the sheet gets the first cell of each row.
AppendRows(sh, rows) == sh \o [i \in 1..Len(rows) |-> rows[i][1]]

\* load_worksheet: the header is written when row 1 is empty.
WithHeader(sh) == IF sh = << >> THEN << HeaderCell >> ELSE sh

(***************************************************************************)
(* main()                                                                  *)
(***************************************************************************)
flat_files   == { f \in files : MatchesFlatPattern(f) }
detail_files == { f \in files : MatchesDetailsPattern(f) }

\* sorted({get_id(f) for f in flat_files} & {get_id(f) for f in detail_files})
CommonIds ==
    SortedSeq({ get_id(f) : f \in flat_files } \cap { get_id(f) : f \in detail_files })

\* The try block of one identifier raises: open() of a missing file,
\* json.load of malformed text, merge_data or build_row.
RecordRaises(aid) ==
    \/ FlatName(aid) \notin files
    \/ contents[FlatName(aid)].malformed
    \/ DetailsName(aid) \notin files
    \/ contents[DetailsName(aid)].malformed
    \/ MergeRaises(ParseDetails(contents[DetailsName(aid)]),
                   ParseFlat(contents[FlatName(aid)]))
    \/ BuildRaises(merge_data(ParseDetails(contents[DetailsName(aid)]),
                              ParseFlat(contents[FlatName(aid)])))

\* build_row(merge_data(details, flat)) for the files of aid
RowOf(aid) ==
    build_row(merge_data(ParseDetails(contents[DetailsName(aid)]),
                         ParseFlat(contents[FlatName(aid)])))

\* Variant: the except clause starts the buffer over.
BufferAfterDropsOnError(aid, rows) ==
    IF RecordRaises(aid) THEN << >> ELSE Append(rows, RowOf(aid))

\* new_rows after the try / except of one identifier.
BufferAfter(aid, rows) ==
    IF RecordRaises(aid) THEN rows ELSE Append(rows, RowOf(aid))

\* built after the try / except of one identifier.
BuiltAfter(aid) ==
    IF RecordRaises(aid) THEN built
    ELSE Append(built, [aid |-> aid, row |-> RowOf(aid)])

\* Variant: if len(new_rows) > CHUNK_SIZE
ShouldFlushAbove(rows) == Len(rows) > CHUNK_SIZE

\* if len(new_rows) >= CHUNK_SIZE
ShouldFlush(rows) == Len(rows) >= CHUNK_SIZE

\* Variant: no finally clause, main() returns at once.
AfterTryNoFinally == "exited"

\* Where control goes when the try block of main() is left: the finally clause.
AfterTry == "finally"

Max(a, b) == IF a > b THEN a ELSE b

\* for aid in common_ids: the next iteration, or the code after the loop.
Advance ==
    /\ idx' = idx + 1
    /\ pc' = IF idx = Len(common_ids) THEN "final" ELSE "loop"

\* load_worksheet() or get_existing_ids() raises (credentials, network,
\* spreadsheet): caught by except Exception, then finally.
LoadWorksheetRaises ==
    /\ pc = "start"
    /\ pc' = AfterTry
    /\ outcome' = "failed"
    /\ UNCHANGED << files, contents, sheet, known_ids, common_ids, idx, new_rows,
                    added, calls, built, max_buf, run, prev_outcome >>

\* ws = load_worksheet(); known_ids = get_existing_ids(ws)
LoadWorksheet ==
    /\ pc = "start"
    /\ sheet' = WithHeader(sheet)
    /\ known_ids' = get_existing_ids(sheet')
    /\ pc' = "scan"
    /\ UNCHANGED << files, contents, common_ids, idx, new_rows, added, calls,
                    built, max_buf, outcome, run, prev_outcome >>

\* The two globs, common_ids, and the early return when it is empty.
Scan ==
    /\ pc = "scan"
    /\ common_ids' = CommonIds
    /\ IF CommonIds = << >>
       THEN pc' = AfterTry /\ outcome' = "empty"
       ELSE pc' = "loop" /\ outcome' = outcome
    /\ UNCHANGED << files, contents, sheet, known_ids, idx, new_rows, added,
                    calls, built, max_buf, run, prev_outcome >>

\* One iteration of the for loop, append_rows succeeding when it is called.
LoopStep ==
    /\ pc = "loop"
    /\ LET aid == common_ids[idx]
           buf == BufferAfter(aid, new_rows)
       IN  IF aid \in known_ids
           THEN /\ Advance
                /\ UNCHANGED << sheet, new_rows, added, calls, built, max_buf >>
           ELSE /\ Advance
                /\ added' = IF RecordRaises(aid) THEN added ELSE added + 1
                /\ built' = BuiltAfter(aid)
                /\ max_buf' = Max(max_buf, Len(buf))
                /\ IF ShouldFlush(buf)
                   THEN /\ sheet' = AppendRows(sheet, buf)
                        /\ calls' = Append(calls, buf)
                        /\ new_rows' = << >>
                   ELSE /\ new_rows' = buf
                        /\ UNCHANGED << sheet, calls >>
    /\ UNCHANGED << files, contents, known_ids, common_ids, outcome, run, prev_outcome >>

\* One iteration of the for loop in which ws.append_rows raises: the for
\* loop is left for except Exception, then finally.
LoopAppendRaises ==
    /\ pc = "loop"
    /\ LET aid == common_ids[idx]
           buf == BufferAfter(aid, new_rows)
       IN  /\ aid \notin known_ids
           /\ ShouldFlush(buf)
           /\ added' = IF RecordRaises(aid) THEN added ELSE added + 1
           /\ built' = BuiltAfter(aid)
           /\ max_buf' = Max(max_buf, Len(buf))
           /\ new_rows' = buf
           /\ calls' = Append(calls, buf)
    /\ pc' = AfterTry
    /\ outcome' = "failed"
    /\ UNCHANGED << files, contents, sheet, known_ids, common_ids, idx, run,
                    prev_outcome >>

\* Variant: the rows left in the buffer after the loop are not sent.
FinalFlushMissing ==
    /\ pc = "final"
    /\ pc' = AfterTry
    /\ outcome' = "completed"
    /\ UNCHANGED << files, contents, sheet, known_ids, common_ids, idx, new_rows,
                    added, calls, built, max_buf, run, prev_outcome >>

\* if new_rows: ws.append_rows(new_rows); then the closing message.  new_rows
\* is not reassigned after this append.
FinalFlush ==
    /\ pc = "final"
    /\ IF new_rows # << >>
       THEN /\ sheet' = AppendRows(sheet, new_rows)
            /\ calls' = Append(calls, new_rows)
       ELSE UNCHANGED << sheet, calls >>
    /\ pc' = AfterTry
    /\ outcome' = "completed"
    /\ UNCHANGED << files, contents, known_ids, common_ids, idx, new_rows, added,
                    built, max_buf, run, prev_outcome >>

\* The final ws.append_rows raises.
FinalAppendRaises ==
    /\ pc = "final"
    /\ new_rows # << >>
    /\ calls' = Append(calls, new_rows)
    /\ pc' = AfterTry
    /\ outcome' = "failed"
    /\ UNCHANGED << files, contents, sheet, known_ids, common_ids, idx, new_rows,
                    added, built, max_buf, run, prev_outcome >>

\* finally: input("Appuyez sur Entree pour quitter..."), then main() returns.
Keypress ==
    /\ pc = "finally"
    /\ pc' = "exited"
    /\ UNCHANGED << files, contents, sheet, known_ids, common_ids, idx, new_rows,
                    added, calls, built, max_buf, outcome, run, prev_outcome >>

\* The script is started again, on the same directory and worksheet.
Rerun ==
    /\ pc = "exited"
    /\ run < MaxRuns
    /\ run' = run + 1
    /\ prev_outcome' = outcome
    /\ pc' = "start"
    /\ known_ids' = {}
    /\ common_ids' = << >>
    /\ idx' = 1
    /\ new_rows' = << >>
    /\ added' = 0
    /\ calls' = << >>
    /\ built' = << >>
    /\ max_buf' = 0
    /\ outcome' = "running"
    /\ UNCHANGED << files, contents, sheet >>

\* The steps of one run of main().
MainStep ==
    \/ LoadWorksheetRaises
    \/ LoadWorksheet
    \/ Scan
    \/ LoopStep
    \/ LoopAppendRaises
    \/ FinalFlush
    \/ FinalAppendRaises
    \/ Keypress

Next == MainStep \/ Rerun

Spec == Init /\ [][Next]_vars

\* A started run of main() keeps executing (the process is not killed): weak
\* fairness of each step of main().  For the loop body WF_vars(LoopBody) is
\* written out, with ENABLED <<LoopBody>>_vars as the state predicate it
\* equals, pc = "loop": an iteration is possible whenever the loop is running.
LoopBody == LoopStep \/ LoopAppendRaises

FairSpec ==
    /\ Spec
    /\ WF_vars(LoadWorksheet \/ LoadWorksheetRaises)
    /\ WF_vars(Scan)
    /\ []<>(pc # "loop") \/ []<><<LoopBody>>_vars
    /\ WF_vars(FinalFlush \/ FinalAppendRaises)
    /\ WF_vars(Keypress)

(***************************************************************************)
(* Properties                                                              *)
(***************************************************************************)
HasFlatFile(id)    == FlatName(id) \in files
HasDetailsFile(id) == DetailsName(id) \in files

\* The identifiers of common_ids that are not in known_ids, in order.
IsNewId(id) == id \notin known_ids
NewIds == SelectSeq(common_ids, IsNewId)

IsValidNewId(id) == id \notin known_ids /\ ~RecordRaises(id)
ValidNewIds == SelectSeq(common_ids, IsValidNewId)

RECURSIVE Concat(_)
Concat(ss) == IF ss = << >> THEN << >> ELSE Head(ss) \o Concat(Tail(ss))

\* Every row passed to append_rows in this run, in order.
RowsSent == Concat(calls)
CallSizes == [k \in 1..Len(calls) |-> Len(calls[k])]
BuiltRows == [k \in 1..Len(built) |-> built[k].row]

ColumnOf(col) == CHOOSE i \in 1..Len(HEADERS) : HEADERS[i] = col

\* ceil(n / CHUNK_SIZE)
CeilChunks(n) == (n + CHUNK_SIZE - 1) \div CHUNK_SIZE

\* C1: an identifier that has only one of its two files is never in
\* common_ids: every identifier main() goes through has both
\* activity_<id>.json and activity_details_<id>.json.
C1_IntersectionOnly ==
    \A k \in 1..Len(common_ids) :
        HasFlatFile(common_ids[k]) /\ HasDetailsFile(common_ids[k])

\* C2: a run that follows a run which ran to completion (on the same
\* directory, with the sheet as that run left it) makes no append_rows call.
C2_SecondRunAddsNothing ==
    (run >= 2 /\ prev_outcome \in {"completed", "empty"}) => calls = << >>

\* C3: no value appears twice in column 1 of the sheet, after any number of
\* runs from a sheet without duplicates.
C3_NoDuplicateIds ==
    \A i, j \in 1..Len(sheet) : i # j => sheet[i] # sheet[j]

\* C4: when a run completes and every new identifier loaded and merged, the
\* N new identifiers are sent in ceil(N / CHUNK_SIZE) append_rows calls, each
\* of CHUNK_SIZE rows except the last, which carries the rest; 250 new
\* identifiers are sent as 100, 100, 50.
C4_BatchFlush ==
    (outcome = "completed" /\ \A k \in 1..Len(NewIds) : ~RecordRaises(NewIds[k])) =>
        LET N == Len(NewIds)
        IN  /\ Len(calls) = CeilChunks(N)
            /\ \A k \in 1..Len(calls) :
                  Len(calls[k]) = IF k < Len(calls) THEN CHUNK_SIZE
                                  ELSE N - (Len(calls) - 1) * CHUNK_SIZE
            /\ (N = 250 => CallSizes = << 100, 100, 50 >>)

C4_Witness ==
    /\ outcome = "completed"
    /\ Len(NewIds) = 250
    /\ \A k \in 1..Len(NewIds) : ~RecordRaises(NewIds[k])
    /\ CallSizes = << 100, 100, 50 >>

\* C5: a failure on one identifier does not end the run and adds no row for
\* it: a run ends as failed only when load_worksheet or an append_rows call
\* raised, and a run that completes has sent exactly the rows of the new
\* identifiers whose files are valid, in order, and the sheet ends with them.
C5_PerRecordIsolation ==
    /\ outcome = "failed" => (calls # << >> \/ common_ids = << >>)
    /\ outcome = "completed" =>
          LET valid == ValidNewIds
              sent  == RowsSent
          IN  /\ Len(sent) = Len(valid)
              /\ \A k \in 1..Len(valid) :
                    LET row == RowOf(valid[k])
                    IN  /\ sent[k] = row
                        /\ sheet[Len(sheet) - Len(valid) + k] = row[1]

C5_Witness ==
    /\ outcome = "completed"
    /\ \E i, j \in 1..Len(common_ids) :
          /\ i < j
          /\ common_ids[i] \notin known_ids /\ RecordRaises(common_ids[i])
          /\ common_ids[j] \notin known_ids /\ ~RecordRaises(common_ids[j])
          /\ RowsSent = << RowOf(common_ids[j]) >>

\* C6: every run of main() that starts reaches the keypress wait of the
\* finally clause.
C6_ReachesKeypress == (pc = "start") ~> (pc = "finally")

C6_Witness ==
    /\ pc = "finally"
    /\ outcome = "failed"
    /\ calls # << >>

\* C7 as stated: every row build_row returns has 44 cells.
C7_RowHas44Cells ==
    \A k \in 1..Len(built) : Len(built[k].row) = 44

\* C7, amended: every row build_row returns has one cell per column of the
\* 46-column header, in header order: cell i holds the record's value of the
\* i-th header name (the derived value for the two derived columns, the JSON
\* text cut to MAX_CELL_LENGTH for a list or dict).  Stated of the newest
\* row of built: every row is the newest one in the state it is built in.
C7_RowMatchesHeaders ==
    /\ Len(HEADERS) = 46
    /\ built # << >> =>
          LET last == built[Len(built)]
              row  == last.row
              data == merge_data(ParseDetails(contents[DetailsName(last.aid)]),
                                 ParseFlat(contents[FlatName(last.aid)]))
          IN  /\ Len(row) = Len(HEADERS)
              /\ \A i \in 1..Len(HEADERS) :
                    row[i] =
                      CASE HEADERS[i] = "averageStrideLength" ->
                              compute_stride_length(data["distance"], data["totalSteps"]).val
                        [] HEADERS[i] = "averagePaceMinPerKm" ->
                              compute_pace_min_per_km(data["averageSpeed"]).val
                        [] OTHER ->
                              IF data[HEADERS[i]].t = "list"
                              THEN Str(Min(data[HEADERS[i]].n, MAX_CELL_LENGTH))
                              ELSE data[HEADERS[i]]

C7_Witness ==
    /\ Len(built) = 1
    /\ Len(built[1].row) = 46
    /\ built[1].row[ColumnOf("splitsJSON")] = Str(MAX_CELL_LENGTH)
    /\ built[1].row[ColumnOf("averageStrideLength")] = Num(5000)
    /\ built[1].row[ColumnOf("averagePaceMinPerKm")] = Num(6670)

\* C8: in every row built, the cell of a column read from a key that the
\* flat document does not have is the empty string.
C8_AbsentIsEmptyString ==
    \A k \in 1..Len(built) :
        \A i \in 1..Len(HEADERS) :
            (/\ HEADERS[i] \in MergedCols
             /\ SourceOf(HEADERS[i]).from = "flat"
             /\ SourceOf(HEADERS[i]).key \notin contents[FlatName(built[k].aid)].flatkeys)
            => built[k].row[i] = EmptyStr

\* The identifier was gone through by the for loop and was not known.
Processed(id) ==
    \E k \in 1..Len(common_ids) : common_ids[k] = id /\ k < idx /\ id \notin known_ids

HasRowWith(id, col, val) ==
    \E k \in 1..Len(built) : built[k].aid = id /\ built[k].row[ColumnOf(col)] = val

ZeroOrAbsent(v) == v = Absent \/ (IsNumber(v) /\ v.n = 0)

\* C9: for a pair of well-formed files whose distance is a number and whose
\* steps and averageSpeed are numbers or absent: when steps is zero or
\* absent the identifier gets a row whose averageStrideLength cell is "",
\* and when averageSpeed is zero or absent it gets a row whose
\* averagePaceMinPerKm cell is "".
C9_DerivedFieldBoundary ==
    \A id \in { get_id(f) : f \in files } :
        (/\ Processed(id)
         /\ HasFlatFile(id) /\ HasDetailsFile(id)
         /\ ~contents[FlatName(id)].malformed
         /\ ~contents[DetailsName(id)].malformed
         /\ IsNumber(contents[DetailsName(id)].distance)
         /\ \A v \in {contents[DetailsName(id)].steps, contents[DetailsName(id)].speed} :
               v = Absent \/ IsNumber(v))
        => /\ ZeroOrAbsent(contents[DetailsName(id)].steps)
                => HasRowWith(id, "averageStrideLength", EmptyStr)
           /\ ZeroOrAbsent(contents[DetailsName(id)].speed)
                => HasRowWith(id, "averagePaceMinPerKm", EmptyStr)

\* C10 as stated: when a run completes, the buffer is empty, every row built
\* was sent exactly once, no call was made with an empty list, added is the
\* number of rows sent; and the buffer never holds more than CHUNK_SIZE rows.
C10_BufferEmptyAtEnd ==
    /\ max_buf <= CHUNK_SIZE /\ Len(new_rows) <= CHUNK_SIZE
    /\ outcome = "completed" =>
          /\ new_rows = << >>
          /\ RowsSent = BuiltRows
          /\ \A k \in 1..Len(calls) : calls[k] # << >>
          /\ added = Len(RowsSent)

\* C10, amended: as stated, except that the buffer is not emptied after the
\* final append_rows: at the end it is empty or holds the rows of the last
\* call, which were sent by it.
C10_EveryRowSentOnce ==
    /\ max_buf <= CHUNK_SIZE /\ Len(new_rows) <= CHUNK_SIZE
    /\ outcome = "completed" =>
          /\ new_rows = << >> \/ (calls # << >> /\ new_rows = calls[Len(calls)])
          /\ RowsSent = BuiltRows
          /\ \A k \in 1..Len(calls) : calls[k] # << >>
          /\ added = Len(RowsSent)

C10_Witness ==
    /\ outcome = "completed"
    /\ max_buf = CHUNK_SIZE
    /\ Len(calls) = 2
    /\ new_rows # << >>
    /\ new_rows = calls[2]
    /\ added = CHUNK_SIZE + 1

=============================================================================
